---- MODULE Spec2Model ----
(***************************************************************************)
(* Mark-sweep smart pointers (gcptr): the block headers, the handles, the  *)
(* roots / members registry, the allocation protocol and the collector of  *)
(* src/trunk/gcptr.cc and src/gcptr.h, with the client of src/trunk/test.cc *)
(* and a general client that uses the public interface.                    *)
(*                                                                         *)
(* Memory is modelled by identity: block b has its payload at address      *)
(* obj(b); a handle is a record with the fields of basic_ptr plus the      *)
(* address of its own storage (addr, 0 when it lives outside every         *)
(* payload: on a C++ stack or in static storage).  A released block keeps  *)
(* the bytes of its header (st = "freed"): reading them is undefined       *)
(* behaviour, whose outcomes are the stale bytes or a fault (crashed).     *)
(***************************************************************************)
EXTENDS Integers, Sequences, FiniteSets, TLC

\* ------------------------------------------------------------------ bounds
GenBlocks == 3          \* blocks the general clients allocate
GenHandles == 3         \* handles the general clients hold at a time
MaxElems == 2           \* elements of an array of the general clients
CycleElems == 3         \* elements of the array of the cycle client

\* ---------------------------------------------------------------- constants
Null == 0                       \* nullptr
DefaultThreshold == 102400      \* 100 * 1024

Threads == {1, 2}
Mutators == {1}
Max(a, b) == IF a >= b THEN a ELSE b
Types == {"int", "A"}            \* a type without and a type with constructor
size_of(T) == IF T = "int" THEN 4 ELSE 32
Stride == 32 * (Max(MaxElems, CycleElems) + 1)  \* payloads are disjoint
UBOutcomes == {"stale", "crash"}

VARIABLES
    blk,            \* block headers, by block id: a sequence of header records
    hd,             \* handles, by handle id: a sequence of basic_ptr records
    roots,          \* head of the roots list
    active_blocks,  \* head of the active blocks list
    constr_stack,   \* per thread: head of the construction stack
    new_blocks,     \* per thread: head of the new blocks list
    threshold,      \* allocated memory threshold
    allocated,      \* memory allocated since last collection
    busy,           \* gc's static busy flag
    frames,         \* per thread: the alloc / alloc_array calls in progress
    exc,            \* per thread: an exception is propagating
    crashed,        \* the process faulted
    uaf,            \* a mark phase has read the header of a released block
    ret,            \* value returned by collect(), 0 after any other statement
    res,            \* outcome of the last checked dereference
    pc,             \* position of the scripted clients
    gc_m,           \* recursive mutex: its owner (0: free) and its depth
    active_m,       \* mutex of the active blocks list: its owner (0: free)
    roots_m,        \* mutex of the roots list: its owner (0: free)
    call            \* per thread: the library calls it is inside, step by step

vars == <<blk, hd, roots, active_blocks, constr_stack, new_blocks, threshold,
          allocated, busy, frames, exc, crashed, uaf, ret, res, pc,
          gc_m, active_m, roots_m, call>>

\* The mutexes and the calls in progress: a client whose statements are single
\* steps leaves them alone.
locks == <<gc_m, active_m, roots_m, call>>

\* The ids in use: blocks are numbered as the untyped heap hands them out (an
\* address is never handed out twice), handles as they are constructed.
Blocks == DOMAIN blk
Handles == DOMAIN hd

\* A handle id that is not constructed.
NoHandle ==
    [st |-> "unused", next |-> Null, prev |-> Null, mem |-> Null,
     pval |-> Null, addr |-> Null]

\* The collector's and allocator's view of the memory, as one record.
St ==
    [blk |-> blk, hd |-> hd, roots |-> roots, active_blocks |-> active_blocks,
     constr_stack |-> constr_stack, new_blocks |-> new_blocks,
     threshold |-> threshold, allocated |-> allocated, busy |-> busy,
     crashed |-> crashed, uaf |-> uaf, ret |-> 0]

Commit(s) ==
    /\ blk' = s.blk
    /\ hd' = s.hd
    /\ roots' = s.roots
    /\ active_blocks' = s.active_blocks
    /\ constr_stack' = s.constr_stack
    /\ new_blocks' = s.new_blocks
    /\ threshold' = s.threshold
    /\ allocated' = s.allocated
    /\ busy' = s.busy
    /\ crashed' = s.crashed
    /\ uaf' = s.uaf
    /\ ret' = s.ret

\* ------------------------------------------------------------ block header

\* Address of first object.
obj(b) == b * Stride

\* Is an address contained in the object area?
contains(s, b, a) == a >= obj(b) /\ a < obj(b) + s.blk[b].objsize

\* Push a block at the head of a list: the new headers (the head becomes mb).
push(bk, mb, list) == [bk EXCEPT ![mb].next = list]

\* Pop the block at the head of a list: the new head.
pop(bk, list) == bk[list].next

\* --------------------------------------------------------- roots / members

\* Insert h in the roots or members list.
\* (a link that does not set the prev of the former head of the roots list)
link_head_only(s, t, h) ==
    LET cs == s.constr_stack[t] IN
    IF cs # Null /\ contains(s, cs, s.hd[h].addr)
    THEN [s EXCEPT !.hd = [@ EXCEPT ![h].next = s.blk[cs].members,
                                    ![h].prev = h],
                   !.blk = [@ EXCEPT ![cs].members = h]]
    ELSE [s EXCEPT !.hd = [@ EXCEPT ![h].prev = Null, ![h].next = s.roots],
                   !.roots = h]
link(s, t, h) ==
    LET cs == s.constr_stack[t] IN
    IF cs # Null /\ contains(s, cs, s.hd[h].addr)
    THEN [s EXCEPT !.hd = [@ EXCEPT ![h].next = s.blk[cs].members,
                                    ![h].prev = h],
                   !.blk = [@ EXCEPT ![cs].members = h]]
    ELSE LET hd1 == [s.hd EXCEPT ![h].prev = Null, ![h].next = s.roots]
             hd2 == IF s.roots # Null
                    THEN [hd1 EXCEPT ![s.roots].prev = h] ELSE hd1
         IN [s EXCEPT !.hd = hd2, !.roots = h]

\* If h is a root, remove it from the roots list.
unlink(s, h) ==
    IF s.hd[h].prev = h THEN s
    ELSE LET n == s.hd[h].next
             p == s.hd[h].prev
             hd1 == IF n # Null THEN [s.hd EXCEPT ![n].prev = p] ELSE s.hd
             hd2 == IF p # Null THEN [hd1 EXCEPT ![p].next = n] ELSE hd1
         IN [s EXCEPT !.hd = hd2, !.roots = IF p # Null THEN @ ELSE n]

\* ~basic_ptr of every handle of H: its storage ends with it.
RECURSIVE destroy_handles(_, _)
destroy_handles(s, H) ==
    IF H = {} THEN s
    ELSE LET h == CHOOSE x \in H : \A y \in H : x <= y
         IN destroy_handles([unlink(s, h) EXCEPT !.hd[h].st = "dead"], H \ {h})

\* The handles stored in elements lo .. hi-1 of block mb, whose elements have
\* the size sz.
handles_in(s, mb, lo, hi, sz) ==
    {h \in DOMAIN s.hd : /\ s.hd[h].st = "live"
                     /\ s.hd[h].addr >= obj(mb) + lo * sz
                     /\ s.hd[h].addr < obj(mb) + hi * sz}

\* ~mblock then delete[]: the array destructor runs over nelems elements (each
\* element's ~T ends the handles it holds), and the bytes are released.
destroy_block(s, mb) ==
    LET d == s.blk[mb].destroy
        n == s.blk[mb].nelems
        s1 == IF d # Null
              THEN [destroy_handles(s, handles_in(s, mb, 0, n, d))
                        EXCEPT !.blk[mb].ndestr = n]
              ELSE s
    IN [s1 EXCEPT !.blk[mb].st = "freed"]

\* ---------------------------------------------------------------- collector

\* Garbage collection, mark phase.
RECURSIVE mark(_, _)
mark(s, list) ==
    IF list = Null THEN s
    ELSE LET mb == s.hd[list].mem
             s0 == IF mb # Null /\ s.blk[mb].st = "freed"
                   THEN [s EXCEPT !.uaf = TRUE] ELSE s
         IN IF mb # Null /\ s.blk[mb].active /\ ~s.blk[mb].marked
            THEN mark(mark([s0 EXCEPT !.blk[mb].marked = TRUE],
                           s.blk[mb].members),
                      s.hd[list].next)
            ELSE mark(s0, s.hd[list].next)

\* Check the active blocks and separate garbage.
RECURSIVE sweep(_, _, _, _)
sweep(bk, list, active, garbage) ==
    IF list = Null THEN [blk |-> bk, active |-> active, garbage |-> garbage]
    ELSE IF bk[list].marked
         THEN sweep(push([bk EXCEPT ![list].marked = FALSE], list, active),
                    pop(bk, list), list, garbage)
         ELSE sweep(push(bk, list, garbage), pop(bk, list), active, list)

\* Collect garbage.
RECURSIVE reclaim(_, _)
reclaim(s, garbage) ==
    IF garbage = Null THEN s
    ELSE LET mb == garbage
             s1 == [s EXCEPT !.ret = @ + s.blk[mb].objsize]
         IN reclaim(destroy_block(s1, mb), pop(s.blk, garbage))

\* Garbage collector.  u is the outcome of undefined behaviour, should the mark
\* phase read a released header.
\* (a collector that waits until the counter is above the threshold)
gc_above(s, unconditional, u) ==
    IF s.busy \/ (~unconditional /\ s.allocated <= s.threshold)
    THEN [s EXCEPT !.ret = 0]
    ELSE LET s1 == [s EXCEPT !.busy = TRUE, !.allocated = 0, !.uaf = FALSE]
             s2 == mark(s1, s1.roots)
             sw == sweep(s2.blk, s2.active_blocks, Null, Null)
             s3 == [s2 EXCEPT !.blk = sw.blk, !.active_blocks = sw.active,
                              !.ret = 0]
             s4 == reclaim(s3, sw.garbage)
         IN IF s2.uaf /\ u = "crash"
            THEN [s EXCEPT !.crashed = TRUE, !.uaf = TRUE]
            ELSE [s4 EXCEPT !.busy = FALSE, !.uaf = s.uaf \/ s2.uaf]
gc(s, unconditional, u) ==
    IF s.busy \/ (~unconditional /\ s.allocated < s.threshold)
    THEN [s EXCEPT !.ret = 0]
    ELSE LET s1 == [s EXCEPT !.busy = TRUE, !.allocated = 0, !.uaf = FALSE]
             s2 == mark(s1, s1.roots)
             sw == sweep(s2.blk, s2.active_blocks, Null, Null)
             s3 == [s2 EXCEPT !.blk = sw.blk, !.active_blocks = sw.active,
                              !.ret = 0]
             s4 == reclaim(s3, sw.garbage)
         IN IF s2.uaf /\ u = "crash"
            THEN [s EXCEPT !.crashed = TRUE, !.uaf = TRUE]
            ELSE [s4 EXCEPT !.busy = FALSE, !.uaf = s.uaf \/ s2.uaf]

\* ---------------------------------------------------------------- allocator

\* The block id the untyped heap hands out next.
new_block(s) == Len(s.blk) + 1

blocks_used == Len(blk)
handles_used == Cardinality({h \in Handles : hd[h].st # "unused"})

\* Begin allocation on handle h.  refused: the untyped heap fails (the caller
\* then sees the exception).
alloc_begin(s, t, h, nelems, elem_size, destr, refused, u) ==
    LET s1 == [gc(s, FALSE, u) EXCEPT !.ret = s.ret]
        objsize == nelems * elem_size
        b == new_block(s1)
        hdr == [st |-> "live", destroy |-> destr, members |-> Null,
                next |-> s1.constr_stack[t], nelems |-> nelems,
                objsize |-> objsize, active |-> FALSE, marked |-> FALSE,
                ndestr |-> 0, by |-> t]
    IN IF s1.crashed THEN s1
       ELSE IF refused THEN [s1 EXCEPT !.hd[h].mem = Null]
       ELSE [s1 EXCEPT !.blk = Append(@, hdr),
                       !.constr_stack[t] = b,
                       !.hd[h].mem = b,
                       !.hd[h].pval = obj(b)]

\* Finished bottom block, activate all new blocks.
RECURSIVE activate(_, _)
activate(s, t) ==
    IF s.new_blocks[t] = Null THEN s
    ELSE LET mb == s.new_blocks[t]
         IN activate([s EXCEPT !.blk = push([@ EXCEPT ![mb].active = TRUE],
                                            mb, s.active_blocks),
                               !.new_blocks[t] = pop(s.blk, mb),
                               !.active_blocks = mb], t)

\* End allocation.  u is the outcome of undefined behaviour, should
\* pop(constr_stack) find the stack empty or should the handle's own storage
\* have been released during the call.
alloc_end(s, t, h, nconstructed, u) ==
    LET cs == s.constr_stack[t]
        s0 == IF cs # Null THEN [s EXCEPT !.constr_stack[t] = pop(s.blk, cs)]
              ELSE IF u = "crash" THEN [s EXCEPT !.crashed = TRUE]
              ELSE s
        mem == s0.hd[h].mem
        s1 == IF nconstructed < s0.blk[mem].nelems
              THEN [destroy_block([s0 EXCEPT !.blk[mem].nelems = nconstructed],
                                  mem)
                        EXCEPT !.hd[h].mem = Null]
              ELSE [s0 EXCEPT !.allocated = @ + s0.blk[mem].objsize,
                              !.blk = push(@, mem, s0.new_blocks[t]),
                              !.new_blocks[t] = mem]
    IN IF s.hd[h].st = "dead" /\ u = "crash" THEN [s EXCEPT !.crashed = TRUE]
       ELSE IF s0.crashed \/ mem = Null THEN s0
       ELSE IF s1.constr_stack[t] # Null THEN s1
       ELSE activate(s1, t)

\* ------------------------------------------------------------------ handles

\* Attachment.
attach(s, h, p) == [s EXCEPT !.hd[h].mem = s.hd[p].mem]
\* (an attach() that leaves the handle as it is)
attach0_skipped(s, t, h) == s
attach0(s, t, h) == [s EXCEPT !.hd[h].mem = s.constr_stack[t]]
is_attached(s, h) == s.hd[h].mem # Null
detach(s, h) == [s EXCEPT !.hd[h].mem = Null]

\* The constructors: basic_ptr(), basic_ptr(void *), basic_ptr(const basic_ptr &)
\* and basic_ptr(const basic_ptr &, void *) are construct with (Null, Null),
\* (Null, p), (src.mem, src.pval) and (src.mem, p).  a is the address of the
\* handle's own storage.
construct(s, t, h, m, p, a) ==
    LET new == [st |-> "live", next |-> Null, prev |-> Null,
                mem |-> m, pval |-> p, addr |-> a]
    IN link([s EXCEPT !.hd = IF h \in DOMAIN @ THEN [@ EXCEPT ![h] = new]
                             ELSE Append(@, new)], t, h)

\* operator =(const basic_ptr &)
\* (an assignment that copies the target and keeps the attachment)
assign_target_only(s, h, src) == [s EXCEPT !.hd[h].pval = s.hd[src].pval]
assign(s, h, src) ==
    [s EXCEPT !.hd[h].mem = s.hd[src].mem, !.hd[h].pval = s.hd[src].pval]

\* operator =(void *)
assign_raw(s, h, p) == [s EXCEPT !.hd[h].pval = p]

\* ~basic_ptr of a handle outside every payload; its id is free again.
destruct(s, h) == [unlink(s, h) EXCEPT !.hd[h] = NoHandle]

\* Check that h can be dereferenced: the exception thrown, or "ok".
check(s, h) ==
    IF s.hd[h].pval = Null THEN "BadDeref"
    ELSE IF s.hd[h].mem # Null /\ ~contains(s, s.hd[h].mem, s.hd[h].pval)
         THEN "OutOfBounds"
         ELSE "ok"

\* ------------------------------------------------------------------- client
\* A frame is one alloc / alloc_array call in progress: h the handle it was
\* called on, want the number of elements asked for, n the local n (elements
\* constructed so far).  An element constructor runs while n < want.  base and
\* first record the call's starting point: the construction stack and the next
\* block id when it was made.  In a header, ndestr counts the element
\* destructors run and by is the allocating thread.

top(t) == frames[t][Len(frames[t])]
in_ctor(t) == frames[t] # <<>> /\ top(t).n < top(t).want
is_target(h) == \E t \in Threads : \E i \in 1 .. Len(frames[t]) : frames[t][i].h = h

\* Thread t is between two of its client statements.
can_run(t) == ~crashed /\ ~exc[t] /\ (frames[t] = <<>> \/ in_ctor(t))

\* The id of the next handle constructed: the least one not in use.
new_handle ==
    CHOOSE h \in 1 .. Len(hd) + 1 :
        /\ h \in Handles => hd[h].st = "unused"
        /\ \A g \in 1 .. h - 1 : hd[g].st # "unused"

\* Address of the element under construction in the innermost frame of t.
this(t) == obj(hd[top(t).h].mem) + top(t).n * blk[hd[top(t).h].mem].destroy

\* The addresses at which thread t may construct a handle: outside every
\* payload (Null) or, in a constructor, in the element under construction.
places(t) ==
    {Null} \cup (IF in_ctor(t) /\ hd[top(t).h].mem # Null THEN {this(t)} ELSE {})

\* May thread t call alloc / alloc_array on h?  The client calls it on a handle
\* it holds for the whole call: one outside every payload, or a data member of
\* the element under construction.
may_alloc(t, h) ==
    /\ can_run(t)
    /\ hd[h].st = "live" /\ ~is_target(h)
    /\ hd[h].addr <= 0 \/ (in_ctor(t) /\ hd[top(t).h].mem # Null
                            /\ hd[h].addr = this(t))

\* May thread t construct a handle whose storage is at address a?  a <= 0 is an
\* address outside every payload (a C++ stack or static storage), a > 0 must
\* be the element under construction: a data member.
may_construct(t, a) ==
    /\ can_run(t)
    /\ a > 0 => in_ctor(t) /\ hd[top(t).h].mem # Null /\ a = this(t)

\* ptr<T> h;  or  ptr<T> h(src);  at address a.
Construct(t, src, a) ==
    /\ may_construct(t, a)
    /\ src # Null => hd[src].st = "live"
    /\ Commit(construct(St, t, new_handle,
                        IF src = Null THEN Null ELSE hd[src].mem,
                        IF src = Null THEN Null ELSE hd[src].pval, a))
    /\ UNCHANGED <<frames, exc>>

\* ptr<T> h(src, p);  at address a: the attachment of src, the target p.
ConstructAt(t, src, p, a) ==
    /\ may_construct(t, a)
    /\ hd[src].st = "live"
    /\ Commit(construct(St, t, new_handle, hd[src].mem, p, a))
    /\ UNCHANGED <<frames, exc>>

\* ptr<T> h(p);  or  ptr<T> h = p;  at address a, p a real pointer.
ConstructRaw(t, p, a) ==
    /\ may_construct(t, a)
    /\ Commit(construct(St, t, new_handle, Null, p, a))
    /\ UNCHANGED <<frames, exc>>

\* End of the lifetime of a handle outside every payload.
Destruct(t, h) ==
    /\ can_run(t)
    /\ hd[h].st = "live" /\ hd[h].addr <= 0 /\ ~is_target(h)
    /\ Commit(destruct(St, h))
    /\ UNCHANGED <<frames, exc>>

\* h = src;
Assign(t, h, src) ==
    /\ can_run(t)
    /\ hd[h].st = "live" /\ hd[src].st = "live" /\ h # src /\ ~is_target(h)
    /\ Commit(assign(St, h, src))
    /\ UNCHANGED <<frames, exc>>

\* h.attach();
Attach0(t, h) ==
    /\ can_run(t)
    /\ hd[h].st = "live" /\ ~is_target(h)
    /\ Commit(attach0(St, t, h))
    /\ UNCHANGED <<frames, exc>>

\* h += n;  (++h, --h, h -= n likewise), h a ptr<T>.
AddAssign(t, h, n, T) ==
    /\ can_run(t)
    /\ hd[h].st = "live" /\ ~is_target(h)
    /\ Commit(assign_raw(St, h, hd[h].pval + n * size_of(T)))
    /\ UNCHANGED <<frames, exc>>

\* *h, h-> (op = "deref") and h[i] (op = "index"): check(), then the access.
\* The outcome is recorded in res.  Reading the header of a released block is
\* undefined behaviour.
Deref(t, h, op, i) ==
    /\ can_run(t)
    /\ hd[h].st = "live"
    /\ res' = [op |-> op, h |-> h, i |-> i, out |-> check(St, h)]
    /\ \E u \in UBOutcomes :
           crashed' = (hd[h].mem # Null /\ hd[h].pval # Null
                       /\ blk[hd[h].mem].st = "freed" /\ u = "crash")
    /\ UNCHANGED <<blk, hd, roots, active_blocks, constr_stack, new_blocks,
                   threshold, allocated, busy, frames, exc, uaf, ret, pc, locks>>

\* h.attach(p);
Attach(t, h, p) ==
    /\ can_run(t)
    /\ hd[h].st = "live" /\ hd[p].st = "live" /\ ~is_target(h)
    /\ Commit(attach(St, h, p))
    /\ UNCHANGED <<frames, exc>>

\* h.detach();
Detach(t, h) ==
    /\ can_run(t)
    /\ hd[h].st = "live" /\ ~is_target(h)
    /\ Commit(detach(St, h))
    /\ UNCHANGED <<frames, exc>>

\* h.alloc_array(nelems) up to the first element constructor: alloc_begin.
\* Type "A" has a constructor and a destructor (it may hold handles), type
\* "int" has neither: use_default_constructor and use_destructor.
AllocBegin(t, h, nelems, T) ==
    /\ may_alloc(t, h)
    /\ \E u \in UBOutcomes :
        LET s == alloc_begin(St, t, h, nelems, size_of(T),
                             IF T = "A" THEN size_of(T) ELSE Null, FALSE, u)
        IN /\ Commit(s)
           /\ frames' = IF s.crashed THEN frames
                        ELSE [frames EXCEPT ![t] = Append(@,
                                [h |-> h, want |-> nelems,
                                 n |-> IF T = "A" THEN 0 ELSE nelems,
                                 base |-> constr_stack[t],
                                 first |-> new_block(St)])]
    /\ UNCHANGED exc

\* h.alloc_array(nelems) when the untyped heap refuses: alloc_begin throws,
\* the catch clause calls alloc_end(0) and throws again.
AllocRefused(t, h) ==
    /\ may_alloc(t, h)
    /\ \E u \in UBOutcomes :
        LET s1 == alloc_begin(St, t, h, 1, 1, Null, TRUE, u)
            s2 == IF s1.crashed THEN s1 ELSE alloc_end(s1, t, h, 0, u)
        IN /\ Commit(s2)
           /\ exc' = [exc EXCEPT ![t] = ~s2.crashed /\ frames[t] # <<>>]
    /\ UNCHANGED frames

\* The constructor of element n returns.
CtorDone(t) ==
    /\ can_run(t) /\ in_ctor(t)
    /\ frames' = [frames EXCEPT ![t][Len(frames[t])].n = @ + 1]
    /\ UNCHANGED <<blk, hd, roots, active_blocks, constr_stack, new_blocks,
                   threshold, allocated, busy, exc, crashed, uaf>>
    /\ ret' = 0

\* The constructor of element n throws (or lets the exception of a nested
\* allocation through): its own data members are destroyed, the catch clause
\* calls alloc_end(n) and throws again.
CtorFail(t) ==
    /\ ~crashed /\ in_ctor(t)
    /\ \E u \in UBOutcomes :
        LET f == top(t)
            b == hd[f.h].mem
            s1 == IF b = Null THEN St
                  ELSE destroy_handles(St,
                         handles_in(St, b, f.n, f.n + 1, blk[b].destroy))
            s2 == alloc_end(s1, t, f.h, f.n, u)
            rest == SubSeq(frames[t], 1, Len(frames[t]) - 1)
        IN /\ Commit(s2)
           /\ frames' = [frames EXCEPT ![t] = rest]
           /\ exc' = [exc EXCEPT ![t] = ~s2.crashed /\ rest # <<>>]

\* All elements are constructed: alloc_end(n).
AllocEnd(t) ==
    /\ ~crashed /\ ~exc[t]
    /\ frames[t] # <<>> /\ top(t).n = top(t).want
    /\ \E u \in UBOutcomes :
           Commit(alloc_end(St, t, top(t).h, top(t).n, u))
    /\ frames' = [frames EXCEPT ![t] = SubSeq(@, 1, Len(@) - 1)]
    /\ UNCHANGED exc

\* collect();
Collect(t) ==
    /\ ~crashed
    /\ t \in Mutators => can_run(t)
    /\ \E u \in UBOutcomes : Commit(gc(St, TRUE, u))
    /\ UNCHANGED <<frames, exc>>

\* collect_threshold(newthr);
collect_threshold(t, newthr) ==
    /\ can_run(t)
    /\ threshold' = IF newthr # 0 THEN newthr ELSE threshold
    /\ UNCHANGED <<blk, hd, roots, active_blocks, constr_stack, new_blocks,
                   allocated, busy, frames, exc, crashed, uaf>>
    /\ ret' = 0

\* No dereference yet, or another statement since.
NoRes == [op |-> "none", h |-> Null, i |-> 0, out |-> "none"]

\* The clients below that record no outcome and follow no script.
Frame == UNCHANGED <<res, pc, locks>>

\* Nothing is registered, allocated or in progress.
Idle ==
    /\ roots = Null
    /\ active_blocks = Null
    /\ constr_stack = [t \in Threads |-> Null]
    /\ new_blocks = [t \in Threads |-> Null]
    /\ threshold = DefaultThreshold
    /\ allocated = 0
    /\ busy = FALSE
    /\ frames = [t \in Threads |-> <<>>]
    /\ exc = [t \in Threads |-> FALSE]
    /\ crashed = FALSE
    /\ uaf = FALSE
    /\ ret = 0
    /\ res = NoRes
    /\ gc_m = [owner |-> 0, depth |-> 0]
    /\ active_m = 0
    /\ roots_m = 0
    /\ call = [t \in Threads |-> <<>>]

\* No block and no handle yet; one scripted client, at its first statement.
Init == blk = <<>> /\ hd = <<>> /\ Idle /\ pc = 0

Next ==
    \/ \E t \in Mutators : \E a \in places(t) :
           handles_used < GenHandles /\ Construct(t, Null, a) /\ Frame
    \/ \E t \in Mutators : \E h \in Handles : \E n \in 1 .. MaxElems :
           blocks_used < GenBlocks /\ AllocBegin(t, h, n, "A") /\ Frame
    \/ \E t \in Mutators : \E h \in Handles : AllocRefused(t, h) /\ Frame
    \/ \E t \in Mutators : CtorDone(t) /\ Frame
    \/ \E t \in Mutators : CtorFail(t) /\ Frame
    \/ \E t \in Mutators : AllocEnd(t) /\ Frame
    \/ \E t \in Threads : Collect(t) /\ Frame

Spec == Init /\ [][Next]_vars

\* ------------------------------------------------- the allocation protocol

\* The blocks thread t has created since its outermost allocation call in
\* progress began, and the blocks on a list.
InFlight(t) ==
    IF frames[t] = <<>> THEN {}
    ELSE {b \in Blocks : blk[b].by = t /\ b >= frames[t][1].first}

RECURSIVE on_list(_, _, _)
on_list(bk, list, b) ==
    IF list = Null THEN FALSE
    ELSE list = b \/ on_list(bk, bk[list].next, b)

\* C3: while an outermost allocation of a thread is in progress, no block the
\* thread has created since its allocate_begin is active, marked, or freed by a
\* collection; when the outermost call ends, all of them that were not rolled
\* back are active, having become so in that one step.
C3_AtomicVisibility ==
    [][\A t \in Mutators :
        /\ frames'[t] # <<>> =>
              \A b \in InFlight(t)' : ~blk'[b].active /\ ~blk'[b].marked
        /\ (\E c \in Threads : Collect(c)) =>
              \A b \in InFlight(t) : blk'[b].st = blk[b].st
        /\ (frames[t] # <<>> /\ frames'[t] = <<>> /\ ~crashed') =>
              \A b \in InFlight(t) : blk'[b].st = "live" => blk'[b].active
      ]_vars

\* C4: when the constructor of element k of a block fails, the block is rolled
\* back: exactly k element destructors run, the block is released and is on
\* neither the new-blocks nor the active list, and once the construction stack
\* is empty every block the constructed elements allocated is released or
\* active.
C4_Rollback ==
    [][\A t \in Mutators : CtorFail(t) =>
        LET b == hd[top(t).h].mem
            k == top(t).n
        IN /\ ~crashed'
           /\ blk'[b].st = "freed"
           /\ blk'[b].ndestr = k
           /\ ~blk'[b].active
           /\ ~on_list(blk', new_blocks'[t], b)
           /\ ~on_list(blk', active_blocks', b)
           /\ constr_stack'[t] = Null =>
                 \A c \in Blocks : (c > b /\ blk'[c].st = "live") => blk'[c].active
      ]_vars

\* C5: after a failed allocation (refused by the heap, or a constructor failure
\* rolled back) the handle it was called on has a null target and a null block,
\* and the failure is propagated to the caller.
C5_NullAfterFailure ==
    [][\A t \in Mutators :
        /\ (CtorFail(t) /\ ~crashed') =>
              /\ hd'[top(t).h].mem = Null
              /\ hd'[top(t).h].pval = Null
              /\ Len(frames[t]) > 1 => exc'[t]
        /\ \A h \in Handles : (AllocRefused(t, h) /\ ~crashed') =>
              /\ hd'[h].mem = Null
              /\ hd'[h].pval = Null
              /\ frames[t] # <<>> => exc'[t]
      ]_vars

\* C6: after an allocation call returns or fails (committed, rolled back or
\* refused) the thread's construction stack is what it was before the call, and
\* in the refused case the handle's block is null.
C6_StackDiscipline ==
    [][\A t \in Mutators :
        /\ ((AllocEnd(t) \/ CtorFail(t)) /\ ~crashed') =>
              constr_stack'[t] = top(t).base
        /\ \A h \in Handles : (AllocRefused(t, h) /\ ~crashed') =>
              constr_stack'[t] = constr_stack[t] /\ hd'[h].mem = Null
      ]_vars

\* The lists block b is on: the construction stack ("constr") and new-blocks
\* list ("new") of each thread, and the global active list.
lists_of(s, b) ==
    {<<"constr", t>> : t \in {x \in Threads : on_list(s.blk, s.constr_stack[x], b)}}
    \cup {<<"new", t>> : t \in {x \in Threads : on_list(s.blk, s.new_blocks[x], b)}}
    \cup (IF on_list(s.blk, s.active_blocks, b) THEN {<<"active", 0>>} ELSE {})

\* C17: after every step, every block that is created and not released is on
\* exactly one of the construction stacks, the new-blocks lists and the active
\* list, and its active bit is set exactly when it is on the active list; and
\* an active block that is not released stays active.
C17_BlockLists ==
    [][/\ \A b \in DOMAIN blk' : blk'[b].st = "live" =>
             /\ Cardinality(lists_of(St', b)) = 1
             /\ blk'[b].active <=> <<"active", 0>> \in lists_of(St', b)
       /\ \A b \in Blocks :
             (blk[b].st = "live" /\ blk[b].active /\ blk'[b].st = "live")
             => blk'[b].active
      ]_vars

\* ------------------------------------------------------- the graph client
GraphBlocks == 2       \* blocks the graph client allocates
GraphHandles == 4       \* handles the graph client holds at a time

\* The client that builds and changes a graph: handles are constructed (also
\* as copies, also as data members during construction), assigned and
\* detached, objects are allocated, and any thread may collect.
NextGraph ==
    \/ \E t \in Mutators : \E src \in Handles \cup {Null} : \E a \in places(t) :
           handles_used < GraphHandles /\ Construct(t, src, a) /\ Frame
    \/ \E t \in Mutators : \E h, src \in Handles : Assign(t, h, src) /\ Frame
    \/ \E t \in Mutators : \E h \in Handles : Detach(t, h) /\ Frame
    \/ \E t \in Mutators : \E h \in Handles :
           blocks_used < GraphBlocks /\ AllocBegin(t, h, 1, "A") /\ Frame
    \/ \E t \in Mutators : CtorDone(t) /\ Frame
    \/ \E t \in Mutators : AllocEnd(t) /\ Frame
    \/ \E t \in Threads : Collect(t) /\ Frame

SpecGraph == Init /\ [][NextGraph]_vars

\* No thread has a block on its construction stack or new-blocks list, and no
\* allocation call is in progress.
Quiescent ==
    \A t \in Threads :
        constr_stack[t] = Null /\ new_blocks[t] = Null /\ frames[t] = <<>>

\* The handles on a roots or members list.
RECURSIVE chain(_)
chain(list) == IF list = Null THEN {} ELSE {list} \cup chain(hd[list].next)

\* The blocks reachable from the roots list: the blocks the root handles are
\* attached to, and the blocks the handles on the members list of a reached
\* (and not released) block are attached to.
RECURSIVE reach_from(_)
reach_from(R) ==
    LET ms == UNION {chain(blk[b].members) : b \in {x \in R : blk[x].st = "live"}}
        R1 == R \cup ({hd[m].mem : m \in ms} \ {Null})
    IN IF R1 = R THEN R ELSE reach_from(R1)

Reach == reach_from({hd[h].mem : h \in chain(roots)} \ {Null})

RECURSIVE sum_objsize(_)
sum_objsize(B) ==
    IF B = {} THEN 0
    ELSE LET b == CHOOSE x \in B : TRUE
         IN blk[b].objsize + sum_objsize(B \ {b})

\* The step is a collect() (a collect() changes no attachment, no list of
\* handles and no call in progress: told first, the other steps are set aside
\* without computing a collection).
CollectStep ==
    /\ frames' = frames /\ roots' = roots /\ DOMAIN hd' = DOMAIN hd
    /\ \A h \in Handles : hd'[h].mem = hd[h].mem
    /\ \E c \in Threads : Collect(c)

\* C1: a collect() at a quiescent point frees exactly the active blocks that
\* are not reachable from the roots list: every reachable one is still live and
\* on the active list afterwards, every unreachable one is released.
C1_ReachabilityExact ==
    [][(Quiescent /\ ~crashed' /\ CollectStep) =>
        \A b \in Blocks : (blk[b].st = "live" /\ blk[b].active) =>
            IF b \in Reach
            THEN blk'[b].st = "live" /\ on_list(blk', active_blocks', b)
            ELSE blk'[b].st = "freed" /\ ~on_list(blk', active_blocks', b)
      ]_vars

\* C8: at a quiescent point, a collect() that follows a collect() immediately
\* returns 0 and leaves the roots list, the members lists and the active list
\* (the blocks on it: a sweep reverses their order) as they are.
C8_Idempotent ==
    [][(Quiescent /\ ~crashed' /\ CollectStep) =>
        \A u \in UBOutcomes :
            LET s2 == gc(St', TRUE, u)
            IN ~s2.crashed =>
                  /\ s2.ret = 0
                  /\ s2.roots = roots'
                  /\ s2.hd = hd'
                  /\ \A b \in Blocks :
                        /\ s2.blk[b].members = blk'[b].members
                        /\ s2.blk[b].st = blk'[b].st
                        /\ on_list(s2.blk, s2.active_blocks, b)
                             <=> on_list(blk', active_blocks', b)
      ]_vars

\* C9: a block to which a root handle is attached survives a collect(); the
\* first collect() after the last handle attached to it is detached frees it;
\* and collect() returns the sum of objsize over the blocks it released.
C9_DetachAndSize ==
    [][(Quiescent /\ ~crashed' /\ CollectStep) =>
        /\ \A h \in chain(roots) :
              (hd[h].mem # Null /\ blk[hd[h].mem].st = "live") =>
                  blk'[hd[h].mem].st = "live"
        /\ \A b \in Blocks :
              (/\ blk[b].st = "live" /\ blk[b].active
               /\ \A h \in Handles : hd[h].st = "live" => hd[h].mem # b)
              => blk'[b].st = "freed"
        /\ ret' = sum_objsize({b \in Blocks :
                                 blk[b].st = "live" /\ blk'[b].st = "freed"})
      ]_vars

\* The live handles stored in the payload of block b.
stored_in(s, b) ==
    {h \in DOMAIN s.hd : s.hd[h].st = "live" /\ contains(s, b, s.hd[h].addr)}

\* Block b is created, not released and not committed to the active list: it
\* is on a construction stack or a new-blocks list.
inactive(s, b) == s.blk[b].st = "live" /\ ~s.blk[b].active

\* C18: an active block to which a member handle of a block that is still
\* inactive is attached is released by no step (no collect() of any thread, no
\* collection at the start of a nested allocation), with or without a root
\* attached to it; and when a block becomes active no handle stored in it is
\* attached to a released block.
C18_NoDanglingAttachment ==
    [][\A y \in Blocks :
        /\ (/\ blk[y].st = "live" /\ blk[y].active
            /\ \E b \in Blocks : /\ inactive(St, b)
                                 /\ \E h \in stored_in(St, b) : hd[h].mem = y)
           => blk'[y].st = "live"
        /\ (inactive(St, y) /\ blk'[y].st = "live" /\ blk'[y].active)
           => \A h \in stored_in(St', y) :
                 hd'[h].mem # Null => blk'[hd'[h].mem].st = "live"
      ]_vars

\* ---------------------------------------------------- the rollback client
RbBlocks == 2           \* blocks the rollback client allocates
RbHandles == 3          \* handles the rollback client holds at a time

\* The client whose constructors may fail: handles outside every payload are
\* constructed between allocations (they outlive the constructors), a
\* constructor builds data members (also as copies), attaches handles to the
\* block under construction (attach()), allocates sub-blocks, and returns or
\* throws.
NextRollback ==
    \/ \E t \in Mutators :
           /\ handles_used < RbHandles /\ frames[t] = <<>>
           /\ Construct(t, Null, Null) /\ Frame
    \/ \E t \in Mutators : \E src \in Handles \cup {Null} :
           /\ handles_used < RbHandles /\ in_ctor(t)
           /\ Construct(t, src, this(t)) /\ Frame
    \/ \E t \in Mutators : \E h \in Handles : in_ctor(t) /\ Attach0(t, h) /\ Frame
    \/ \E t \in Mutators : \E h \in Handles : \E n \in 1 .. MaxElems :
           blocks_used < RbBlocks /\ AllocBegin(t, h, n, "A") /\ Frame
    \/ \E t \in Mutators : CtorDone(t) /\ Frame
    \/ \E t \in Mutators : CtorFail(t) /\ Frame
    \/ \E t \in Mutators : AllocEnd(t) /\ Frame
    \/ \E t \in Threads : Collect(t) /\ Frame

SpecRollback == Init /\ [][NextRollback]_vars

\* C20: when a constructor fails and allocate_end rolls the block back, no live
\* handle that is a root or is stored in an active block is attached to the
\* released block afterwards.
C20_NoAttachmentToRolledBack ==
    [][\A t \in Mutators : (CtorFail(t) /\ ~crashed') =>
        LET b == hd[top(t).h].mem
        IN \A h \in DOMAIN hd' :
              (/\ hd'[h].st = "live"
               /\ \/ hd'[h].prev # h
                  \/ \E c \in Blocks : blk'[c].st = "live" /\ blk'[c].active
                                       /\ h \in stored_in(St', c))
              => hd'[h].mem # b
      ]_vars

\* ------------------------------------------------------- the roots client
RootBlocks == 2         \* blocks the roots client allocates
RootHandles == 3        \* handles the roots client holds at a time

\* A handle is constructed in the payload of a block after the element's
\* constructor has returned (a data member that is built late, as the value
\* of an optional member is): the address is in the payload of b.
ConstructLate(t, b) ==
    /\ can_run(t)
    /\ blk[b].st = "live" /\ blk[b].destroy # Null
    /\ (frames[t] # <<>> /\ hd[top(t).h].mem = b) => top(t).n > 0
    /\ Commit(construct(St, t, new_handle, Null, Null, obj(b)))
    /\ UNCHANGED <<frames, exc>>

\* The client of the handle registry: every thread constructs and destroys
\* handles outside every payload and data members, allocates, and collects.
NextRoots ==
    \/ \E t \in Threads : \E src \in Handles \cup {Null} : \E a \in places(t) :
           handles_used < RootHandles /\ Construct(t, src, a) /\ Frame
    \/ \E t \in Threads : \E b \in Blocks :
           handles_used < RootHandles /\ ConstructLate(t, b) /\ Frame
    \/ \E t \in Threads : \E h \in Handles : Destruct(t, h) /\ Frame
    \/ \E t \in Threads : \E h \in Handles :
           blocks_used < RootBlocks /\ AllocBegin(t, h, 1, "A") /\ Frame
    \/ \E t \in Threads : CtorDone(t) /\ Frame
    \/ \E t \in Threads : AllocEnd(t) /\ Frame
    \/ \E t \in Threads : can_run(t) /\ Collect(t) /\ Frame

SpecRoots == Init /\ [][NextRoots]_vars

\* The handles on a roots or members list of s.
RECURSIVE chain_in(_, _)
chain_in(s, list) ==
    IF list = Null THEN {} ELSE {list} \cup chain_in(s, s.hd[list].next)

\* The lists handle h is on.
registered(s, h) ==
    (IF h \in chain_in(s, s.roots) THEN {Null} ELSE {})
    \cup {b \in DOMAIN s.blk : h \in chain_in(s, s.blk[b].members)}

\* Every live handle is on exactly one list, a handle on the roots list never
\* has prev = self and a handle on a members list always has, and the roots
\* list is a well-formed doubly-linked list of exactly the live roots.
Population(s) ==
    LET live == {h \in DOMAIN s.hd : s.hd[h].st = "live"}
        R == chain_in(s, s.roots)
    IN /\ \A h \in live : Cardinality(registered(s, h)) = 1
       /\ \A h \in live : Null \in registered(s, h) <=> s.hd[h].prev # h
       /\ R = {h \in live : s.hd[h].prev # h}
       /\ s.roots # Null => s.hd[s.roots].prev = Null
       /\ \A h \in R : s.hd[h].next # Null => s.hd[s.hd[h].next].prev = h

\* C11: after every step of any thread the handle population is as Population
\* says; a handle that is constructed is put on the members list of block b
\* exactly when b is the top of the constructing thread's construction stack
\* and the handle's address is in the payload of b, and on the roots list
\* otherwise; and a live handle never changes list.
C11_HandlePopulation ==
    [][/\ Population(St')
       /\ \A t \in Threads : \A a \in {Null} \cup {obj(b) : b \in Blocks} :
             (/\ new_handle \in DOMAIN hd' /\ hd'[new_handle].st = "live"
              /\ new_handle \in Handles => hd[new_handle].st = "unused"
              /\ \/ \E src \in Handles \cup {Null} : Construct(t, src, a)
                 \/ \E b \in Blocks : a = obj(b) /\ ConstructLate(t, b))
             => registered(St', new_handle)
                  = IF constr_stack[t] # Null /\ contains(St, constr_stack[t], a)
                    THEN {constr_stack[t]} ELSE {Null}
       /\ \A h \in Handles : (hd[h].st = "live" /\ hd'[h].st = "live")
             => registered(St', h) = registered(St, h)
      ]_vars

\* Handles of both populations exist and a root has been destroyed: a data
\* member of a committed block is live, a root is left on the list, and a
\* handle id below the ids of the roots is free.
C11_RootUnlinked ==
    /\ \E h \in Handles : \E b \in Blocks :
           /\ hd[h].st = "live" /\ hd[h].prev = h
           /\ blk[b].st = "live" /\ blk[b].active /\ h \in stored_in(St, b)
    /\ roots # Null
    /\ \E h \in Handles : hd[h].st = "unused" /\ \A r \in chain(roots) : r > h

\* ------------------------------------------------------- the cycle client
\* body() of test.cc from "ptr<A> pa": an array of CycleElems objects of type
\* A, each building a cycle A -> B -> C -> A, and a pointer to the member p of
\* each C.  Handles are named by the address of their storage: a payload
\* address, or a (negative) stack address.

at(a) == CHOOSE h \in Handles : hd[h].st = "live" /\ hd[h].addr = a

pa_addr == 0 - 1                \* ptr<A> pa
ppa_addr(i) == 0 - 2 - i        \* ptr<ptr<A>> ppa0, ppa1, ppa2
a_addr == 0 - 100               \* the local a of A::A
rootB_addr == 0 - 101           \* the parameter root of B::B
rootC_addr == 0 - 102           \* the parameter root of C::C

array_block == 1
B_block(i) == 2 + 2 * i
C_block(i) == 3 + 2 * i
elem(i) == obj(array_block) + i * size_of("A")

\* A::A() for element i, with B::B and C::C inside it.
elem_script(i) ==
    << [op |-> "construct", src |-> Null, a |-> elem(i)],
       [op |-> "construct_raw", p |-> elem(i), a |-> a_addr],
       [op |-> "attach0", h |-> a_addr],
       [op |-> "alloc_begin", h |-> elem(i), n |-> 1],
       [op |-> "construct", src |-> a_addr, a |-> rootB_addr],
       [op |-> "construct", src |-> Null, a |-> obj(B_block(i))],
       [op |-> "alloc_begin", h |-> obj(B_block(i)), n |-> 1],
       [op |-> "construct", src |-> rootB_addr, a |-> rootC_addr],
       [op |-> "construct", src |-> rootC_addr, a |-> obj(C_block(i))],
       [op |-> "destruct", h |-> rootC_addr],
       [op |-> "ctor_done"],
       [op |-> "alloc_end"],
       [op |-> "destruct", h |-> rootB_addr],
       [op |-> "ctor_done"],
       [op |-> "alloc_end"],
       [op |-> "destruct", h |-> a_addr],
       [op |-> "ctor_done"] >>

\* ppa0 and ppa1 are constructed from a handle and a pointer, ppa2 from a
\* pointer and then attached.
ppa_script(i) ==
    IF i = 2
    THEN << [op |-> "construct_raw", p |-> obj(C_block(i)), a |-> ppa_addr(i)],
            [op |-> "attach", h |-> ppa_addr(i), p |-> obj(B_block(i))] >>
    ELSE << [op |-> "construct_at", src |-> obj(B_block(i)),
             p |-> obj(C_block(i)), a |-> ppa_addr(i)] >>

\* The scripts of elements i .. n-1, one after the other.
RECURSIVE elems_script(_, _)
elems_script(i, n) ==
    IF i = n THEN <<>> ELSE elem_script(i) \o elems_script(i + 1, n)

RECURSIVE ppas_script(_, _)
ppas_script(i, n) ==
    IF i = n THEN <<>> ELSE ppa_script(i) \o ppas_script(i + 1, n)

cycle_script ==
    << [op |-> "construct", src |-> Null, a |-> pa_addr],
       [op |-> "alloc_begin", h |-> pa_addr, n |-> CycleElems] >>
    \o elems_script(0, CycleElems)
    \o << [op |-> "alloc_end"] >>
    \o ppas_script(0, CycleElems)

\* The statement at pc.
stmt == cycle_script[pc + 1]
built == pc = Len(cycle_script)
Advance == pc' = pc + 1 /\ UNCHANGED <<res, locks>>

NextCycle ==
    \/ /\ ~built /\ stmt.op = "construct"
       /\ Construct(1, IF stmt.src = Null THEN Null ELSE at(stmt.src), stmt.a)
       /\ Advance
    \/ ~built /\ stmt.op = "construct_raw" /\ ConstructRaw(1, stmt.p, stmt.a) /\ Advance
    \/ /\ ~built /\ stmt.op = "construct_at"
       /\ ConstructAt(1, at(stmt.src), stmt.p, stmt.a)
       /\ Advance
    \/ ~built /\ stmt.op = "attach0" /\ Attach0(1, at(stmt.h)) /\ Advance
    \/ ~built /\ stmt.op = "attach" /\ Attach(1, at(stmt.h), at(stmt.p)) /\ Advance
    \/ ~built /\ stmt.op = "alloc_begin" /\ AllocBegin(1, at(stmt.h), stmt.n, "A") /\ Advance
    \/ ~built /\ stmt.op = "ctor_done" /\ CtorDone(1) /\ Advance
    \/ ~built /\ stmt.op = "alloc_end" /\ AllocEnd(1) /\ Advance
    \/ ~built /\ stmt.op = "destruct" /\ Destruct(1, at(stmt.h)) /\ Advance
    \/ \E h \in chain(roots) : built /\ hd[h].mem # Null /\ Detach(1, h) /\ Frame
    \/ \E t \in Threads : (t \in Mutators => built) /\ Collect(t) /\ Frame

SpecCycle == Init /\ [][NextCycle]_vars

\* C2: in the cycle client no dereference or collection faults; every collect()
\* frees 0 bytes and no block as long as a root handle is attached to a block
\* of the structure; and the first collect() after the last such root is
\* detached frees the array block and every sub-block of every cycle, leaving
\* none on the active list.
C2_CycleReclaimed ==
    [][/\ ~crashed'
       /\ CollectStep =>
            IF \E h \in chain(roots) : hd[h].mem # Null
            THEN ret' = 0 /\ \A b \in Blocks : blk'[b].st = blk[b].st
            ELSE /\ \A b \in Blocks : blk'[b].st = "freed"
                 /\ active_blocks' = Null
                 /\ ret' = sum_objsize({b \in Blocks : blk[b].st = "live"})
      ]_vars

\* The cycles were built, the last root was detached, and a collect() has
\* released the array and two sub-blocks per element.
C2_Reclaimed ==
    /\ built
    /\ Len(blk) = 1 + 2 * CycleElems
    /\ \A b \in Blocks : blk[b].st = "freed" /\ blk[b].ndestr = blk[b].nelems
    /\ ret = 3 * CycleElems * size_of("A")

\* ----------------------------------------------------- the pointer client
PtrBlocks == 2          \* blocks the pointer client allocates
PtrHandles == 2         \* handles the pointer client holds at a time
PtrElems == 4           \* elements of its arrays of int

\* Is a an address the pointer client computes: in the payload of a block,
\* one element before it or one past its end?
near(a) ==
    \E b \in Blocks : a >= obj(b) - size_of("int") /\ a <= obj(b) + blk[b].objsize

\* The statement just executed, for the pointer client.
Note(op, h, i) ==
    res' = [op |-> op, h |-> h, i |-> i, out |-> "none"] /\ UNCHANGED <<pc, locks>>

\* The client that copies handles, does pointer arithmetic on them and
\* dereferences them: arrays of int, and objects that hold handles.
NextPtr ==
    \/ \E t \in Mutators : \E src \in Handles \cup {Null} : \E a \in places(t) :
           /\ handles_used < PtrHandles
           /\ Construct(t, src, a)
           /\ Note("copy", new_handle, src)
    \/ \E t \in Mutators : \E h \in Handles : \E n \in {0 - 1, 1, PtrElems - 1, PtrElems} :
           /\ handles_used < PtrHandles
           /\ near(hd[h].pval + n * size_of("int"))
           /\ ConstructAt(t, h, hd[h].pval + n * size_of("int"), Null)
           /\ Note("add", new_handle, h)
    \/ \E t \in Mutators : \E h \in Handles : \E n \in {0 - 1, 1} :
           /\ near(hd[h].pval + n * size_of("int"))
           /\ AddAssign(t, h, n, "int")
           /\ Note("add_assign", h, n)
    \/ \E t \in Mutators : \E h, src \in Handles :
           Assign(t, h, src) /\ Note("assign", h, src)
    \/ \E t \in Mutators : \E h \in Handles : Detach(t, h) /\ Note("detach", h, 0)
    \/ \E t \in Mutators : \E h \in Handles : \E T \in Types :
           /\ blocks_used < PtrBlocks
           /\ AllocBegin(t, h, IF T = "int" THEN PtrElems ELSE 1, T)
           /\ Note("alloc", h, 0)
    \/ \E t \in Mutators : CtorDone(t) /\ Note("ctor", 0, 0)
    \/ \E t \in Mutators : AllocEnd(t) /\ Note("alloc", 0, 0)
    \/ \E t \in Mutators : \E h \in Handles : Deref(t, h, "deref", 0)
    \/ \E t \in Mutators : \E h \in Handles : \E i \in {0, PtrElems - 1, PtrElems} :
           Deref(t, h, "index", i)

SpecPtr == Init /\ [][NextPtr]_vars

\* ---------------------------------------------------- the threshold client
ThrBlocks == 3          \* blocks the threshold client allocates
ThrHandles == 2         \* handles the threshold client holds at a time
ThrSmall == 64          \* the threshold it sets: two elements

\* The client that sets the threshold and allocates garbage: handles are
\* constructed and detached, allocations (also nested, also of arrays) are
\* committed, rolled back or refused, and any thread may collect.  The
\* statement just executed is recorded in res (for allocate_begin with the
\* value of the counter at the call).
NextThreshold ==
    \/ \E t \in Mutators : \E newthr \in {0, ThrSmall} :
           collect_threshold(t, newthr) /\ Note("collect_threshold", 0, newthr)
    \/ \E t \in Mutators : \E a \in places(t) :
           /\ handles_used < ThrHandles
           /\ Construct(t, Null, a)
           /\ Note("construct", new_handle, 0)
    \/ \E t \in Mutators : \E h \in Handles : Detach(t, h) /\ Note("detach", h, 0)
    \/ \E t \in Mutators : \E h \in Handles : \E n \in 1 .. MaxElems :
           /\ blocks_used < ThrBlocks
           /\ AllocBegin(t, h, n, "A")
           /\ Note("alloc_begin", h, allocated)
    \/ \E t \in Mutators : \E h \in Handles :
           AllocRefused(t, h) /\ Note("refused", h, 0)
    \/ \E t \in Mutators : CtorDone(t) /\ Note("ctor", 0, 0)
    \/ \E t \in Mutators : CtorFail(t) /\ Note("ctor_fail", top(t).h, 0)
    \/ \E t \in Mutators : AllocEnd(t) /\ Note("alloc_end", top(t).h, 0)
    \/ \E t \in Threads : Collect(t) /\ Note("collect", 0, t)

SpecThreshold == Init /\ [][NextThreshold]_vars

\* The conditional collection at the start of allocate_begin is due.
due == allocated >= threshold /\ ~busy

\* The blocks a step releases.
released == {b \in Blocks : blk[b].st = "live" /\ blk'[b].st = "freed"}

InCall(t) == call[t] # <<>>
cur_call(t) == call[t][Len(call[t])]
at_lbl(t, l) == InCall(t) /\ cur_call(t).lbl = l
set_call(t, r) == [call EXCEPT ![t][Len(call[t])] = r]
end_call(t) == [call EXCEPT ![t] = SubSeq(@, 1, Len(@) - 1)]

\* lock() and unlock() of the recursive mutex.
may_lock(m, t) == m.owner \in {0, t}
locked(m, t) == [owner |-> t, depth |-> m.depth + 1]
unlocked(m) ==
    [owner |-> IF m.depth = 1 THEN 0 ELSE m.owner, depth |-> m.depth - 1]

\* Thread t is in client code: outside the library, or in the destructor of
\* an object that the collector is destroying.
in_client(t) == ~InCall(t) \/ at_lbl(t, "dtor")

\* gc(unconditional) up to the mark phase: exclude other threads, check if we
\* should collect.  A call that should not returns 0 at once.
\* (a collector that does not test busy)
GcEnter_reentered(c, unconditional) ==
    /\ ~crashed /\ in_client(c)
    /\ may_lock(gc_m, c)
    /\ IF ~unconditional /\ allocated < threshold
       THEN UNCHANGED <<busy, allocated, gc_m, call>>
       ELSE /\ busy' = TRUE
            /\ allocated' = 0
            /\ gc_m' = locked(gc_m, c)
            /\ call' = [call EXCEPT ![c] = Append(@,
                          [lbl |-> "lock_active", cur |-> <<>>, pend |-> Null,
                           garbage |-> Null, freed |-> 0,
                           fr |-> Len(frames[c])])]
    /\ ret' = 0
    /\ UNCHANGED <<blk, hd, roots, active_blocks, constr_stack, new_blocks,
                   threshold, frames, exc, crashed, uaf, active_m, roots_m>>
GcEnter(c, unconditional) ==
    /\ ~crashed /\ in_client(c)
    /\ may_lock(gc_m, c)
    /\ IF busy \/ (~unconditional /\ allocated < threshold)
       THEN UNCHANGED <<busy, allocated, gc_m, call>>
       ELSE /\ busy' = TRUE
            /\ allocated' = 0
            /\ gc_m' = locked(gc_m, c)
            /\ call' = [call EXCEPT ![c] = Append(@,
                          [lbl |-> "lock_active", cur |-> <<>>, pend |-> Null,
                           garbage |-> Null, freed |-> 0,
                           fr |-> Len(frames[c])])]
    /\ ret' = 0
    /\ UNCHANGED <<blk, hd, roots, active_blocks, constr_stack, new_blocks,
                   threshold, frames, exc, crashed, uaf, active_m, roots_m>>

\* active_m.lock();
GcLockActive(c) ==
    /\ ~crashed /\ at_lbl(c, "lock_active")
    /\ active_m = 0
    /\ active_m' = c
    /\ call' = set_call(c, [cur_call(c) EXCEPT !.lbl = "lock_roots"])
    /\ UNCHANGED <<blk, hd, roots, active_blocks, constr_stack, new_blocks,
                   threshold, allocated, busy, frames, exc, crashed, uaf, ret,
                   res, pc, gc_m, roots_m>>

\* roots_m.lock(); then the call mark(roots).
GcLockRoots(c) ==
    /\ ~crashed /\ at_lbl(c, "lock_roots")
    /\ roots_m = 0
    /\ roots_m' = c
    /\ call' = set_call(c, [cur_call(c) EXCEPT !.lbl = "mark",
                                               !.cur = <<roots>>])
    /\ UNCHANGED <<blk, hd, roots, active_blocks, constr_stack, new_blocks,
                   threshold, allocated, busy, frames, exc, crashed, uaf, ret,
                   res, pc, gc_m, active_m>>

\* One turn of the loop of the innermost mark: the test of list, the read of
\* list->mem and of its header and, for a header that is constructed, the
\* write of marked and the call mark(mb->members).  At the end of a list the
\* call returns: to the loop of its caller or, for mark(roots), to gc, which
\* unlocks roots_m.  Reading the header of a released block is undefined
\* behaviour (u); so is reading one that alloc_begin has not constructed yet,
\* whose bytes may pass the test or not (v).
GcMark(c) ==
    /\ ~crashed /\ at_lbl(c, "mark")
    /\ LET r == cur_call(c)
           n == Len(r.cur)
           list == r.cur[n]
           outer == SubSeq(r.cur, 1, n - 1)
           mb == hd[list].mem
       IN IF list = Null
          THEN /\ IF outer = <<>>
                  THEN /\ roots_m' = 0
                       /\ call' = set_call(c, [r EXCEPT !.lbl = "sweep",
                                                        !.cur = <<>>])
                  ELSE /\ roots_m' = roots_m
                       /\ call' = set_call(c, [r EXCEPT !.cur =
                                    [outer EXCEPT ![n - 1] = hd[@].next]])
               /\ UNCHANGED <<blk, crashed, uaf>>
          ELSE /\ roots_m' = roots_m
               /\ \E u \in UBOutcomes, v \in BOOLEAN :
                    LET gone == mb # Null /\ blk[mb].st = "freed"
                        raw == mb # Null /\ blk[mb].st = "raw"
                        test == /\ mb # Null
                                /\ IF raw THEN v
                                   ELSE blk[mb].active /\ ~blk[mb].marked
                    IN /\ crashed' = (gone /\ u = "crash")
                       /\ uaf' = (uaf \/ gone)
                       /\ blk' = IF test /\ ~raw /\ ~crashed'
                                 THEN [blk EXCEPT ![mb].marked = TRUE]
                                 ELSE blk
                       /\ call' =
                            IF crashed' THEN call
                            ELSE IF ~test
                            THEN set_call(c, [r EXCEPT !.cur[n] = hd[list].next])
                            ELSE IF raw
                            THEN set_call(c, [r EXCEPT !.lbl = "mark_write",
                                                       !.pend = mb])
                            ELSE set_call(c, [r EXCEPT !.cur =
                                                Append(@, blk[mb].members)])
    /\ UNCHANGED <<hd, roots, active_blocks, constr_stack, new_blocks,
                   threshold, allocated, busy, frames, exc, ret, res, pc,
                   gc_m, active_m>>

\* mb->marked = true; mark(mb->members); on a header that was not constructed
\* when it was tested.  If it still is not, its members are what the bytes
\* hold: undefined behaviour again.
GcMarkWrite(c) ==
    /\ ~crashed /\ at_lbl(c, "mark_write")
    /\ LET r == cur_call(c)
           mb == r.pend
           raw == blk[mb].st = "raw"
       IN \E u \in UBOutcomes :
            /\ crashed' = (raw /\ u = "crash")
            /\ blk' = IF crashed' THEN blk
                      ELSE [blk EXCEPT ![mb].marked = TRUE]
            /\ call' = IF crashed' THEN call
                       ELSE set_call(c, [r EXCEPT !.lbl = "mark",
                                                  !.pend = Null,
                                                  !.cur = Append(@,
                                                     IF raw THEN Null
                                                     ELSE blk[mb].members)])
    /\ UNCHANGED <<hd, roots, active_blocks, constr_stack, new_blocks,
                   threshold, allocated, busy, frames, exc, uaf, ret, res, pc,
                   gc_m, active_m, roots_m>>

\* Check the active blocks and separate garbage; active_m.unlock().
GcSweep(c) ==
    /\ ~crashed /\ at_lbl(c, "sweep")
    /\ LET sw == sweep(blk, active_blocks, Null, Null)
       IN /\ blk' = sw.blk
          /\ active_blocks' = sw.active
          /\ call' = set_call(c, [cur_call(c) EXCEPT !.lbl = "reclaim",
                                                     !.garbage = sw.garbage])
    /\ active_m' = 0
    /\ UNCHANGED <<hd, roots, constr_stack, new_blocks, threshold, allocated,
                   busy, frames, exc, crashed, uaf, ret, res, pc, gc_m,
                   roots_m>>

\* One turn of the loop that collects garbage, up to the destructors of the
\* block's objects; with no garbage left, the end of gc.
GcReclaim(c) ==
    /\ ~crashed /\ at_lbl(c, "reclaim")
    /\ LET r == cur_call(c)
           mb == r.garbage
       IN IF mb = Null
          THEN /\ busy' = FALSE
               /\ ret' = r.freed
               /\ gc_m' = unlocked(gc_m)
               /\ call' = end_call(c)
          ELSE /\ call' = set_call(c, [r EXCEPT !.lbl = "dtor",
                                                !.pend = mb,
                                                !.garbage = pop(blk, mb),
                                                !.freed = @ + blk[mb].objsize])
               /\ UNCHANGED <<busy, ret, gc_m>>
    /\ UNCHANGED <<blk, hd, roots, active_blocks, constr_stack, new_blocks,
                   threshold, allocated, frames, exc, crashed, uaf, res, pc,
                   active_m, roots_m>>

\* The destructors of the block's objects return: their handles end (one that
\* is a root is unlinked under roots_m) and the bytes are released.
GcDestroy(c) ==
    /\ ~crashed /\ at_lbl(c, "dtor")
    /\ ~exc[c] /\ Len(frames[c]) = cur_call(c).fr
    /\ LET r == cur_call(c)
           mb == r.pend
           d == blk[mb].destroy
           s == destroy_block(St, mb)
       IN /\ (d # Null /\ handles_in(St, mb, 0, blk[mb].nelems, d)
                            \cap chain(roots) # {}) => roots_m = 0
          /\ blk' = s.blk
          /\ hd' = s.hd
          /\ roots' = s.roots
          /\ call' = set_call(c, [r EXCEPT !.lbl = "reclaim", !.pend = Null])
    /\ UNCHANGED <<active_blocks, constr_stack, new_blocks, threshold,
                   allocated, busy, frames, exc, crashed, uaf, ret, res, pc,
                   gc_m, active_m, roots_m>>

\* A step of a collection that thread c is inside.
GcStep(c) ==
    \/ GcLockActive(c)
    \/ GcLockRoots(c)
    \/ GcMark(c)
    \/ GcMarkWrite(c)
    \/ GcSweep(c)
    \/ GcReclaim(c)
    \/ GcDestroy(c)

\* ---------------------------------------------------------- the race client
RaceBlocks == 2         \* blocks the race client allocates
RaceHandles == 3        \* handles the race client holds at a time

\* Thread 1 builds root handles and blocks of int while no collection runs;
\* then it copy-assigns and detaches its root handles at any time, while
\* thread 2 collects.
NextRace ==
    \/ \E src \in {Null} \cup {h \in Handles : hd[h].st = "live"} :
           /\ ~InCall(2) /\ handles_used < RaceHandles
           /\ Construct(1, src, Null) /\ Frame
    \/ \E h \in Handles :
           /\ ~InCall(2) /\ blocks_used < RaceBlocks
           /\ AllocBegin(1, h, 1, "int") /\ Frame
    \/ ~InCall(2) /\ AllocEnd(1) /\ Frame
    \/ \E h, src \in Handles : Assign(1, h, src) /\ Frame
    \/ \E h \in Handles : Detach(1, h) /\ Frame
    \/ ~InCall(2) /\ GcEnter(2, TRUE) /\ UNCHANGED <<res, pc>>
    \/ GcLockActive(2)
    \/ GcLockRoots(2)
    \/ GcMark(2)
    \/ GcSweep(2)
    \/ GcReclaim(2)
    \/ GcDestroy(2)

SpecRace == Init /\ [][NextRace]_vars

\* C19: no block is released while a root handle is attached to it: at every
\* step that releases a block of a collection racing with q = p; p.detach(),
\* no handle on the roots list holds the block.
C19_NoFreeUnderReassignedRoot ==
    [][\A b \in released : \A h \in chain(roots) : hd[h].mem # b]_vars

\* ------------------------------------------------------ the nested client
NestBlocks == 3         \* blocks the nested client allocates
NestHandles == 2        \* handles the nested client holds at a time

\* Thread 1 holds root handles, allocates objects of a type with a destructor
\* and collects; the destructor of such an object, which the reclaim phase
\* runs, may do the same.  Thread 2 collects.  alloc_begin and alloc_end take
\* gc_m (gc(false), allocated += objsize), alloc_end takes active_m when it
\* activates the new blocks, a root's constructor takes roots_m.
NextNested ==
    \/ /\ in_client(1) /\ roots_m = 0 /\ handles_used < NestHandles
       /\ Construct(1, Null, Null) /\ Frame
    \/ \E h \in Handles : in_client(1) /\ Detach(1, h) /\ Frame
    \/ \E h \in Handles :
           /\ in_client(1) /\ may_lock(gc_m, 1) /\ blocks_used < NestBlocks
           /\ AllocBegin(1, h, 1, "A") /\ Frame
    \/ in_client(1) /\ CtorDone(1) /\ Frame
    \/ /\ in_client(1) /\ may_lock(gc_m, 1)
       /\ (frames[1] # <<>> /\ top(1).base = Null) => active_m = 0
       /\ AllocEnd(1) /\ Frame
    \/ \E t \in Threads :
           /\ t \in Mutators => can_run(t)
           /\ GcEnter(t, TRUE) /\ UNCHANGED <<res, pc>>
    \/ \E t \in Threads : GcLockActive(t)
    \/ \E t \in Threads : GcLockRoots(t)
    \/ \E t \in Threads : GcMark(t)
    \/ \E t \in Threads : GcSweep(t)
    \/ \E t \in Threads : GcReclaim(t)
    \/ \E t \in Threads : GcDestroy(t)

SpecNested == Init /\ [][NextNested]_vars

\* The positions of a call of gc that has decided to collect.
GcLabels ==
    {"lock_active", "lock_roots", "mark", "mark_write", "sweep", "reclaim",
     "dtor"}
gc_calls(t) == {i \in 1 .. Len(call[t]) : call[t][i].lbl \in GcLabels}
Collecting == {t \in Threads : gc_calls(t) # {}}

\* A step of a thread c that is collecting.  A gc call of c (collect() or the
\* gc(false) of an allocation, made in a destructor that the reclaim phase
\* runs) returns 0 and marks, sweeps and frees nothing; the allocation it
\* belongs to ends with its block committed; no other thread enters gc.
\* Committed is, with always_active, on the active list; without, on the
\* active list when the construction stack of c is then empty and on the
\* pending list of c when it is not (c called gc from inside a constructor).
reentrant(c, always_active) ==
    /\ (\E unc \in BOOLEAN : GcEnter(c, unc))
       => /\ ret' = 0
          /\ UNCHANGED <<blk, hd, roots, active_blocks, busy, call>>
    /\ (at_lbl(c, "dtor") /\ Len(frames'[c]) > Len(frames[c]))
       => /\ \A b \in Blocks : blk'[b] = blk[b]
          /\ UNCHANGED <<active_blocks, busy, call>>
    /\ (/\ at_lbl(c, "dtor") /\ ~crashed'
        /\ Len(frames[c]) = cur_call(c).fr + 1
        /\ Len(frames'[c]) = cur_call(c).fr)
       => LET b == hd[top(c).h].mem
          IN /\ blk'[b].st = "live"
             /\ IF always_active \/ constr_stack'[c] = Null
                THEN blk'[b].active /\ on_list(blk', active_blocks', b)
                ELSE ~blk'[b].active /\ on_list(blk', new_blocks'[c], b)
             /\ UNCHANGED <<busy, call>>
    /\ \A t \in Threads \ {c} : ~(GcEnter(t, TRUE) \/ GcEnter(t, FALSE))

\* C14, as stated: the block of an allocation made in a destructor that the
\* reclaim phase runs is on the active list when the allocation ends.
C14_CommitsToActiveList ==
    [][\A c \in Collecting : reentrant(c, TRUE)]_vars

\* C14: while a collection is in progress, a gc call of the collecting thread
\* returns 0 and marks, sweeps and frees nothing, and the allocation it belongs
\* to ends with its block committed: active when the thread is inside no other
\* allocation, pending when it is; no other thread enters gc, and at most one
\* collection is in progress.
C14_Reentrancy ==
    [][/\ Cardinality(Collecting') <= 1
       /\ \A t \in Threads : Cardinality(gc_calls(t)') <= 1
       /\ \A c \in Collecting : reentrant(c, FALSE)
      ]_vars

\* A destructor run by the reclaim phase has allocated, and its block is on
\* the active list.
C14_AllocatedInDestructor ==
    /\ busy /\ at_lbl(1, "dtor") /\ Len(frames[1]) = cur_call(1).fr
    /\ allocated > 0
    /\ \E b \in Blocks : /\ blk[b].st = "live" /\ blk[b].active
                         /\ b > cur_call(1).pend
                         /\ on_list(blk, active_blocks, b)
    /\ blk[cur_call(1).pend].st = "live"

\* -------------------------------------------------- the concurrent client
ConcBlocks == 2         \* blocks the concurrent clients allocate
ConcHandles == 2        \* handles the concurrent clients hold at a time

\* The handles of thread t outside every payload: its address space is -t.
own(t, h) == hd[h].st = "live" /\ hd[h].addr = 0 - t

\* The bytes operator new[] returns: a header that no constructor has run on.
\* Whatever is read from it is undefined.
RawHeader(t) ==
    [st |-> "raw", destroy |-> Null, members |-> Null, next |-> Null,
     nelems |-> 0, objsize |-> 0, active |-> FALSE, marked |-> FALSE,
     ndestr |-> 0, by |-> t]

\* alloc_begin up to the assignment of mem: gc(false), which takes gc_m and
\* here returns 0 (the counter is below the threshold, or a collection of this
\* thread is in progress), then mem = new char[...], which returns block b.
AllocRawAt(t, h, b, nelems, T) ==
    /\ ~InCall(t) /\ may_alloc(t, h)
    /\ may_lock(gc_m, t)
    /\ busy \/ allocated < threshold
    /\ blk' = IF b \in DOMAIN blk THEN [blk EXCEPT ![b] = RawHeader(t)]
              ELSE Append(blk, RawHeader(t))
    /\ hd' = [hd EXCEPT ![h].mem = b]
    /\ call' = [call EXCEPT ![t] = Append(@,
                  [lbl |-> "alloc", h |-> h, want |-> nelems, T |-> T])]
    /\ UNCHANGED <<roots, active_blocks, constr_stack, new_blocks, threshold,
                   allocated, busy, frames, exc, crashed, uaf, ret, gc_m,
                   active_m, roots_m>>

AllocRaw(t, h, nelems, T) == AllocRawAt(t, h, new_block(St), nelems, T)

\* The rest of alloc_begin: the header is constructed in place, pushed on
\* the construction stack, and pval is set.
AllocInit(t) ==
    /\ ~crashed /\ at_lbl(t, "alloc")
    /\ LET r == cur_call(t)
           b == hd[r.h].mem
           d == IF r.T = "A" THEN size_of(r.T) ELSE Null
       IN /\ blk' = [blk EXCEPT ![b] =
                       [st |-> "live", destroy |-> d, members |-> Null,
                        next |-> constr_stack[t], nelems |-> r.want,
                        objsize |-> r.want * size_of(r.T), active |-> FALSE,
                        marked |-> FALSE, ndestr |-> 0, by |-> t]]
          /\ constr_stack' = [constr_stack EXCEPT ![t] = b]
          /\ hd' = [hd EXCEPT ![r.h].pval = obj(b)]
          /\ frames' = [frames EXCEPT ![t] = Append(@,
                          [h |-> r.h, want |-> r.want,
                           n |-> IF r.T = "A" THEN 0 ELSE r.want,
                           base |-> constr_stack[t], first |-> b])]
    /\ call' = end_call(t)
    /\ UNCHANGED <<roots, active_blocks, new_blocks, threshold, allocated,
                   busy, exc, crashed, uaf, ret, res, pc, gc_m, active_m,
                   roots_m>>

\* Every thread constructs and destroys root handles of its own, allocates
\* objects whose constructor may store a handle to the object in the object (a
\* cycle), detaches and collects.  The constructor and the destructor of a
\* root take roots_m, alloc_end takes gc_m and, to activate, active_m.
NextConc ==
    \/ \E t \in Threads :
           /\ ~InCall(t) /\ roots_m = 0 /\ handles_used < ConcHandles
           /\ Construct(t, Null, 0 - t) /\ Frame
    \/ \E t \in Threads :
           /\ ~InCall(t) /\ in_ctor(t) /\ handles_used < ConcHandles
           /\ Construct(t, top(t).h, this(t)) /\ Frame
    \/ \E t \in Threads : \E h \in Handles :
           /\ ~InCall(t) /\ roots_m = 0 /\ own(t, h)
           /\ Destruct(t, h) /\ Frame
    \/ \E t \in Threads : \E h \in Handles :
           /\ ~InCall(t) /\ own(t, h) /\ hd[h].mem # Null
           /\ Detach(t, h) /\ Frame
    \/ \E t \in Threads : \E h \in Handles :
           /\ own(t, h) /\ blocks_used < ConcBlocks
           /\ AllocRaw(t, h, 1, "A") /\ UNCHANGED <<res, pc>>
    \/ \E t \in Threads : AllocInit(t)
    \/ \E t \in Threads : ~InCall(t) /\ CtorDone(t) /\ Frame
    \/ \E t \in Threads :
           /\ ~InCall(t) /\ may_lock(gc_m, t)
           /\ (frames[t] # <<>> /\ top(t).base = Null) => active_m = 0
           /\ AllocEnd(t) /\ Frame
    \/ \E t \in Threads :
           /\ ~InCall(t) /\ can_run(t)
           /\ GcEnter(t, TRUE) /\ UNCHANGED <<res, pc>>
    \/ \E t \in Threads : GcLockActive(t)
    \/ \E t \in Threads : GcLockRoots(t)
    \/ \E t \in Threads : GcMark(t)
    \/ \E t \in Threads : GcMarkWrite(t)
    \/ \E t \in Threads : GcSweep(t)
    \/ \E t \in Threads : GcReclaim(t)
    \/ \E t \in Threads : GcDestroy(t)

SpecConc == Init /\ [][NextConc]_vars

\* Under fair scheduling a thread inside a collection takes its next step.
SpecConcFair == SpecConc /\ \A t \in Threads : WF_vars(GcStep(t))

\* The mutexes thread t holds.
held(t) ==
    (IF gc_m.owner = t THEN {"gc_m"} ELSE {})
    \cup (IF active_m = t THEN {"active_m"} ELSE {})
    \cup (IF roots_m = t THEN {"roots_m"} ELSE {})

\* The mutexes are nested in the order gc_m, active_m, roots_m: what a thread
\* holds is a prefix of that order, it holds nothing in client code but the
\* gc_m of a collection it called from there, and it takes none while it holds
\* a later one.
LockOrder ==
    \A t \in Threads :
        /\ held(t) \in {{}, {"gc_m"}, {"gc_m", "active_m"},
                        {"gc_m", "active_m", "roots_m"}}
        /\ ~InCall(t) => held(t) = {}

LockStep ==
    \A t \in Threads :
        /\ ("gc_m" \notin held(t) /\ "gc_m" \in held(t)') => held(t) = {}
        /\ ("active_m" \notin held(t) /\ "active_m" \in held(t)')
           => held(t) = {"gc_m"}
        /\ ("roots_m" \notin held(t) /\ "roots_m" \in held(t)')
           => held(t) = {"gc_m", "active_m"}

\* A thread inside a call of the library can take its next step.
NoDeadlock ==
    \A t \in Threads :
        (InCall(t) /\ ~crashed) => ENABLED (GcStep(t) \/ AllocInit(t))

\* C15: no reachable state is a deadlock on gc_m, active_m and roots_m, the
\* mutexes are only ever nested in that order, and under fair scheduling every
\* collection that a thread enters finishes.
C15_DeadlockFreeAndComplete ==
    /\ [](LockOrder /\ NoDeadlock)
    /\ [][LockStep]_vars
    /\ \A t \in Threads : (t \in Collecting) ~> (t \notin Collecting)

\* Some thread is between the first write and the last clearing of a mark bit:
\* in the mark phase or about to sweep.
InMarkSweep ==
    \E t \in Threads :
        InCall(t) /\ cur_call(t).lbl \in {"mark", "mark_write", "sweep"}

\* C16: with no thread in the mark phase every block has marked = false (so
\* every collection returns with marked = false on every block that remains),
\* and marked is set, on a header that is constructed, only if the block is
\* active.
C16_MarkBit ==
    /\ [](~InMarkSweep => \A b \in Blocks : blk[b].st = "live" => ~blk[b].marked)
    /\ [][\A b \in Blocks :
            (blk[b].st = "live" /\ ~blk[b].marked /\ blk'[b].marked)
            => blk[b].active]_vars

\* ------------------------------------------------------- the body client
\* Every thread runs the cyclic part of body() of test.cc on an array of
\* BodyElems elements, its collect() calls and its allocations step by step;
\* when all have finished, thread 1 (main, after the joins) collects once more.
\* The heap and the stacks hand out the same storage in every interleaving:
\* each thread has block ids and handle ids of its own.
BodyElems == 1          \* elements of the array of each thread

BlocksPerThread == 1 + 2 * BodyElems
HandlesPerThread == 4 + 4 * BodyElems

\* The blocks of thread t: the array, the B and the C of element i.
block_of(t, name, i) ==
    (t - 1) * BlocksPerThread
    + (CASE name = "A" -> array_block
         [] name = "B" -> B_block(i)
         [] name = "C" -> C_block(i))

\* The handles of thread t: pa, a, rootB and rootC, then ppa and the member p
\* of the A, the B and the C of element i.
handle_of(t, name, i) ==
    (t - 1) * HandlesPerThread
    + (CASE name = "pa" -> 1
         [] name = "a" -> 2
         [] name = "rootB" -> 3
         [] name = "rootC" -> 4
         [] name = "ppa" -> 5 + 4 * i
         [] name = "A" -> 6 + 4 * i
         [] name = "B" -> 7 + 4 * i
         [] name = "C" -> 8 + 4 * i)

\* A handle outside every payload is a root: its constructor and destructor
\* take roots_m.
is_stack(name) == name \in {"pa", "ppa", "a", "rootB", "rootC"}

\* Where the handle is stored: in the stack of thread t, or in the object.
where(t, name, i) ==
    IF is_stack(name) THEN 0 - handle_of(t, name, i)
    ELSE obj(block_of(t, name, i)) + (IF name = "A" THEN i * size_of("A") ELSE 0)

\* pa.alloc_array constructs element i: A::A, which runs B::B, which runs C::C.
body_elem(i) ==
    << [op |-> "construct", src |-> "", a |-> "A", i |-> i],
       [op |-> "construct_raw", p |-> "A", a |-> "a", i |-> i],
       [op |-> "attach0", h |-> "a", i |-> i],
       [op |-> "alloc_raw", h |-> "A", b |-> "B", n |-> 1, i |-> i],
       [op |-> "construct", src |-> "a", a |-> "rootB", i |-> i],
       [op |-> "construct", src |-> "", a |-> "B", i |-> i],
       [op |-> "alloc_raw", h |-> "B", b |-> "C", n |-> 1, i |-> i],
       [op |-> "construct", src |-> "rootB", a |-> "rootC", i |-> i],
       [op |-> "construct", src |-> "rootC", a |-> "C", i |-> i],
       [op |-> "destruct", h |-> "rootC", i |-> i],
       [op |-> "ctor_done"],
       [op |-> "alloc_end"],
       [op |-> "destruct", h |-> "rootB", i |-> i],
       [op |-> "ctor_done"],
       [op |-> "alloc_end"],
       [op |-> "destruct", h |-> "a", i |-> i],
       [op |-> "ctor_done"] >>

RECURSIVE body_elems(_, _)
body_elems(i, n) ==
    IF i = n THEN <<>> ELSE body_elem(i) \o body_elems(i + 1, n)

\* ptr<ptr<A>> ppa(pa[i].p->p, &C::p);
RECURSIVE body_ppas(_, _)
body_ppas(i, n) ==
    IF i = n THEN <<>>
    ELSE <<[op |-> "construct_at", i |-> i]>> \o body_ppas(i + 1, n)

\* ppa.detach(); collect();
RECURSIVE body_detach(_, _)
body_detach(i, n) ==
    IF i = n THEN <<>>
    ELSE << [op |-> "detach", h |-> "ppa", i |-> i], [op |-> "collect"] >>
         \o body_detach(i + 1, n)

\* The end of the block: the handles are destroyed.
RECURSIVE body_leave(_, _)
body_leave(i, n) ==
    IF i = n THEN <<>>
    ELSE <<[op |-> "destruct", h |-> "ppa", i |-> i]>> \o body_leave(i + 1, n)

body_script ==
    << [op |-> "construct", src |-> "", a |-> "pa", i |-> 0],
       [op |-> "alloc_raw", h |-> "pa", b |-> "A", n |-> BodyElems, i |-> 0] >>
    \o body_elems(0, BodyElems)
    \o << [op |-> "alloc_end"] >>
    \o body_ppas(0, BodyElems)
    \o << [op |-> "collect"],
          [op |-> "detach", h |-> "pa", i |-> 0],
          [op |-> "collect"] >>
    \o body_detach(0, BodyElems)
    \o body_leave(0, BodyElems)
    \o << [op |-> "destruct", h |-> "pa", i |-> 0] >>

\* Thread t has run its script; the statement it is at.
finished(t) == pc[t] >= Len(body_script) /\ ~InCall(t)
body_stmt(t) == body_script[pc[t] + 1]
at_stmt(t, op) ==
    /\ ~InCall(t) /\ pc[t] < Len(body_script)
    /\ body_stmt(t).op = op
go_on(t) == pc' = [pc EXCEPT ![t] = @ + 1]
Step(t) == go_on(t) /\ UNCHANGED <<res, locks>>

\* The handle a statement names.
named(t, name) == handle_of(t, name, body_stmt(t).i)

\* A constructor of basic_ptr, for the handle with the id h.
BodyConstruct(t, h, m, p, a) ==
    /\ may_construct(t, a)
    /\ is_stack(body_stmt(t).a) => roots_m = 0
    /\ Commit(construct(St, t, h, m, p, a))
    /\ UNCHANGED <<frames, exc>>

\* The storage of every block and of every handle is there, unused.
InitBody ==
    /\ blk = [b \in 1 .. Cardinality(Threads) * BlocksPerThread |->
                [RawHeader(0) EXCEPT !.st = "none"]]
    /\ hd = [h \in 1 .. Cardinality(Threads) * HandlesPerThread |-> NoHandle]
    /\ Idle
    /\ pc = [t \in Threads |-> 0]

NextBody ==
    \/ \E t \in Threads :
           /\ at_stmt(t, "construct")
           /\ LET src == body_stmt(t).src
              IN BodyConstruct(t, named(t, body_stmt(t).a),
                     IF src = "" THEN Null ELSE hd[named(t, src)].mem,
                     IF src = "" THEN Null ELSE hd[named(t, src)].pval,
                     where(t, body_stmt(t).a, body_stmt(t).i))
           /\ Step(t)
    \/ \E t \in Threads :
           /\ at_stmt(t, "construct_raw")
           /\ BodyConstruct(t, named(t, body_stmt(t).a), Null,
                            where(t, body_stmt(t).p, body_stmt(t).i),
                            where(t, body_stmt(t).a, body_stmt(t).i))
           /\ Step(t)
    \/ \E t \in Threads :
           \* pa[i].p->p reads the B: undefined behaviour if it was released
           /\ at_stmt(t, "construct_at") /\ roots_m = 0 /\ can_run(t)
           /\ LET i == body_stmt(t).i
                  gone == blk[block_of(t, "B", i)].st = "freed"
              IN \E u \in UBOutcomes :
                     Commit(IF gone /\ u = "crash"
                            THEN [St EXCEPT !.crashed = TRUE]
                            ELSE construct(St, t, handle_of(t, "ppa", i),
                                           hd[handle_of(t, "B", i)].mem,
                                           where(t, "C", i),
                                           where(t, "ppa", i)))
           /\ UNCHANGED <<frames, exc>>
           /\ Step(t)
    \/ \E t \in Threads :
           /\ at_stmt(t, "attach0")
           /\ Attach0(t, named(t, body_stmt(t).h))
           /\ Step(t)
    \/ \E t \in Threads :
           /\ at_stmt(t, "alloc_raw")
           /\ AllocRawAt(t, named(t, body_stmt(t).h),
                         block_of(t, body_stmt(t).b, body_stmt(t).i),
                         body_stmt(t).n, "A")
           /\ go_on(t) /\ UNCHANGED res
    \/ \E t \in Threads : AllocInit(t) /\ UNCHANGED <<res, pc>>
    \/ \E t \in Threads : at_stmt(t, "ctor_done") /\ CtorDone(t) /\ Step(t)
    \/ \E t \in Threads :
           /\ at_stmt(t, "alloc_end") /\ may_lock(gc_m, t)
           /\ top(t).base = Null => active_m = 0
           /\ AllocEnd(t) /\ Step(t)
    \/ \E t \in Threads :
           /\ at_stmt(t, "destruct") /\ roots_m = 0
           /\ Destruct(t, named(t, body_stmt(t).h))
           /\ Step(t)
    \/ \E t \in Threads :
           /\ at_stmt(t, "detach")
           /\ Detach(t, named(t, body_stmt(t).h))
           /\ Step(t)
    \/ \E t \in Threads :
           /\ at_stmt(t, "collect") /\ can_run(t)
           /\ GcEnter(t, TRUE) /\ go_on(t) /\ UNCHANGED res
    \/ /\ \A t \in Threads : finished(t)
       /\ pc[1] = Len(body_script)
       /\ GcEnter(1, TRUE) /\ go_on(1) /\ UNCHANGED res
    \/ \E t \in Threads : GcLockActive(t)
    \/ \E t \in Threads : GcLockRoots(t)
    \/ \E t \in Threads : GcMark(t)
    \/ \E t \in Threads : GcMarkWrite(t)
    \/ \E t \in Threads : GcSweep(t)
    \/ \E t \in Threads : GcReclaim(t)
    \/ \E t \in Threads : GcDestroy(t)

SpecBody == InitBody /\ [][NextBody]_vars

\* The root handles of thread t: on the roots list, stored in its stack.
roots_of(t) ==
    {h \in chain(roots) : h > (t - 1) * HandlesPerThread
                          /\ h <= t * HandlesPerThread}

\* C13: no block is released while a root handle of the thread that allocated
\* it is attached, and when every thread has finished and the final collect()
\* has returned the active list is empty and every block has been released.
C13_NothingLive ==
    /\ [][\A b \in released : \A h \in roots_of(blk[b].by) : hd[h].mem = Null]_vars
    /\ []((pc[1] > Len(body_script) /\ \A t \in Threads : finished(t))
           => /\ active_blocks = Null
              /\ \A b \in Blocks : blk[b].st = "freed")

\* The address a recorded dereference accesses.
accessed == hd[res.h].pval + res.i * size_of("int")

\* C7: *p, p-> and p[i] fail with BadDeref when the target is null, fail with
\* OutOfBounds when p is attached and the accessed address is outside the
\* payload of the attached block, and succeed otherwise.
C7_CheckedDeref ==
    res.op \in {"deref", "index"} =>
        res.out = IF hd[res.h].pval = Null THEN "BadDeref"
                  ELSE IF /\ hd[res.h].mem # Null
                          /\ ~contains(St, hd[res.h].mem, accessed)
                       THEN "OutOfBounds"
                       ELSE "ok"

\* The roots list and every members list are as they were.
SameLists ==
    /\ roots' = roots
    /\ DOMAIN hd' = DOMAIN hd
    /\ \A g \in Handles : hd'[g].next = hd[g].next /\ hd'[g].prev = hd[g].prev
    /\ \A b \in Blocks : blk'[b].members = blk[b].members

\* C10: after q = p or the copy-construction of q from p, q has the block and
\* the target of p; p + n and p - n have the block of p; ++, --, += and -=
\* change the target only; and a copy-assignment leaves the roots list and all
\* members lists unchanged, the assigned handle where it was registered.
C10_CopyArithmetic ==
    [][/\ (res'.op = "assign" /\ res' # res) =>
             /\ hd'[res'.h].mem = hd[res'.i].mem
             /\ hd'[res'.h].pval = hd[res'.i].pval
             /\ SameLists
             /\ res'.h \in chain(roots) <=> hd'[res'.h].prev # res'.h
       /\ (res'.op = "copy" /\ res'.i # Null) =>
             /\ hd'[res'.h].mem = hd[res'.i].mem
             /\ hd'[res'.h].pval = hd[res'.i].pval
       /\ res'.op = "add" => hd'[res'.h].mem = hd[res'.i].mem
       /\ (res'.op = "add_assign" /\ res' # res) =>
             /\ hd' = [hd EXCEPT ![res'.h].pval = hd[res'.h].pval
                                                  + res'.i * size_of("int")]
             /\ blk' = blk /\ roots' = roots
      ]_vars

\* A data member of an object has been assigned from a root handle that is
\* attached: the member has the root's block and target, and is still a member.
C10_MemberAssigned ==
    /\ res.op = "assign"
    /\ hd[res.h].prev = res.h
    /\ hd[res.i].prev # res.i
    /\ hd[res.h].mem # Null
    /\ hd[res.h].mem = hd[res.i].mem /\ hd[res.h].pval = hd[res.i].pval
    /\ \E b \in Blocks : res.h \in chain(blk[b].members)

====
